---- MODULE Spec2Model ----
\* A model of src/src/ophyd_async/epics/pvi/pvi.py: filling a Device with the
\* signals and sub-devices a remote PVI table tree reports (fill_pvi_entries with
\* sim=False) or with simulated ones built from the type hints alone (sim=True).
EXTENDS Integers, Sequences, FiniteSets, TLC

\* ---------------------------------------------------------------------------
\* Names.  A name is a sequence of one-character strings, so that the regular
\* expression of _strip_number_from_string has something to work on.
\* ---------------------------------------------------------------------------
Digits == {"0", "1", "2", "3", "4", "5", "6", "7", "8", "9"}

DigitVal(c) ==
    CASE c = "0" -> 0 [] c = "1" -> 1 [] c = "2" -> 2 [] c = "3" -> 3
      [] c = "4" -> 4 [] c = "5" -> 5 [] c = "6" -> 6 [] c = "7" -> 7
      [] c = "8" -> 8 [] c = "9" -> 9

\* Python's None where an int is expected (number_suffix, a missing parent).
None == -1

\* int(number) of a string of decimal digits.
RECURSIVE int(_)
int(ds) ==
    IF ds = <<>> THEN 0
    ELSE 10 * int(SubSeq(ds, 1, Len(ds) - 1)) + DigitVal(ds[Len(ds)])

\* `$` without re.MULTILINE: the end of the string, or just before a newline
\* that ends the string.
AtDollar(s, p) ==
    \/ p = Len(s)
    \/ p = Len(s) - 1 /\ s[Len(s)] = "\n"

\* The longest run of digits of s that starts right after position k.
DigitRun(s, k) ==
    LET ends == {d \in 0..(Len(s) - k) : \A j \in (k + 1)..(k + d) : s[j] \in Digits}
    IN  CHOOSE d \in ends : \A e \in ends : e <= d

\* Group 1 of r"(.*?)(\d*)$" may end at position k of s: no newline up to k,
\* and digits from there up to a place where `$` matches.
Fits(s, k) ==
    /\ \A j \in 1..k : s[j] # "\n"
    /\ \E d \in 0..DigitRun(s, k) : AtDollar(s, k + d)

\* The match with group 1 ending at k: group 2 is greedy, the longest that fits.
MatchAt(s, k) ==
    LET ds == {d \in 0..DigitRun(s, k) : AtDollar(s, k + d)}
    IN  [ok |-> TRUE,
         g1 |-> SubSeq(s, 1, k),
         g2 |-> SubSeq(s, k + 1, k + (CHOOSE d0 \in ds : \A d1 \in ds : d1 <= d0))]

\* re.match(r"(.*?)(\d*)$", s): group 1 is lazy, the shortest that fits.  The
\* result is [ok, g1, g2]; ok = FALSE is a match of None.
Match(s) ==
    LET ks == {k \in 0..Len(s) : Fits(s, k)}
    IN  IF ks = {} THEN [ok |-> FALSE, g1 |-> <<>>, g2 |-> <<>>]
        ELSE MatchAt(s, CHOOSE k0 \in ks : \A k1 \in ks : k0 <= k1)

\* _strip_number_from_string: [ok, name, number]; ok = FALSE is the failed
\* `assert match`, number = None is the empty digit group.
_strip_number_from_string(string) ==
    LET match == Match(string)
    IN  IF ~match.ok THEN [ok |-> FALSE, name |-> <<>>, number |-> None]
        ELSE [ok |-> TRUE,
              name |-> match.g1,
              number |-> IF match.g2 = <<>> THEN None ELSE int(match.g2)]

\* ---------------------------------------------------------------------------
\* Type hints.  A hint is [opt, vec, sig, cls, arg]: Optional[...] around
\* DeviceVector[...] around a class cls, which is a Signal class when sig, with
\* the type argument arg ("" when the class carries none, as in plain SignalX).
\* ---------------------------------------------------------------------------
Hint(opt, vec, sig, cls, arg) ==
    [opt |-> opt, vec |-> vec, sig |-> sig, cls |-> cls, arg |-> arg]

Cls(c) == Hint(FALSE, FALSE, FALSE, c, "")
Sig(c, a) == Hint(FALSE, FALSE, TRUE, c, a)
Vec(h) == [h EXCEPT !.vec = TRUE]
Opt(h) == [h EXCEPT !.opt = TRUE]

\* No declared type: common_device_type_hints.get(...) returning None.
NoHint == Hint(FALSE, FALSE, FALSE, "", "")

\* _strip_union: the first member of a Union that is not NoneType.
_strip_union(field) == [field EXCEPT !.opt = FALSE]

\* _strip_device_vector: (is a DeviceVector, its element type).
_strip_device_vector(field) == <<field.vec, [field EXCEPT !.vec = FALSE]>>

N_name == <<"_", "n", "a", "m", "e">>
N_parent == <<"p", "a", "r", "e", "n", "t">>
N_x == <<"x">>
N_y == <<"y">>
N_y1 == <<"y", "1">>
N_y2 == <<"y", "2">>
N_m == <<"m">>
N_s == <<"s">>
N_t == <<"t">>
N_c == <<"c">>
N_n == <<"n">>
N_dv == <<"d", "v">>
N_dv1 == <<"d", "v", "1">>
N_dv2 == <<"d", "v", "2">>
N_b1 == <<"b", "1">>

\* The annotations every Device carries: `_name: str`, `parent: Optional[Device]`.
IdentityHints == << <<N_name, Cls("str")>>, <<N_parent, Opt(Cls("Device"))>> >>

\* The classes a caller may declare, each with its own annotations in order.
\*   Plain    no annotation of its own (no declared schema)
\*   Block1   s: SignalRW[int]
\*   TopReq   m: Block1, x: SignalRW[int]
\*   TopOpt   x: SignalRW[int], m: Optional[Block1]
\*   TopVec   dv: DeviceVector[Block1], y: DeviceVector[SignalRW[int]]
\*   TopX     t: SignalX
\*   TopBad   x: SignalRW[int], c: NeedsArg   (NeedsArg() raises TypeError)
\*   TopDeep  n: Nest;   Nest   dv: DeviceVector[Block1]
\*   TopNum   b1: Block1
OwnHints(cls) ==
    CASE cls = "Block1" -> << <<N_s, Sig("SignalRW", "int")>> >>
      [] cls = "TopReq" -> << <<N_m, Cls("Block1")>>, <<N_x, Sig("SignalRW", "int")>> >>
      [] cls = "TopOpt" -> << <<N_x, Sig("SignalRW", "int")>>, <<N_m, Opt(Cls("Block1"))>> >>
      [] cls = "TopVec" -> << <<N_dv, Vec(Cls("Block1"))>>,
                              <<N_y, Vec(Sig("SignalRW", "int"))>> >>
      [] cls = "TopX" -> << <<N_t, Sig("SignalX", "")>> >>
      [] cls = "TopBad" -> << <<N_x, Sig("SignalRW", "int")>>, <<N_c, Cls("NeedsArg")>> >>
      [] cls = "TopDeep" -> << <<N_n, Cls("Nest")>> >>
      [] cls = "Nest" -> << <<N_dv, Vec(Cls("Block1"))>> >>
      [] cls = "TopNum" -> << <<N_b1, Cls("Block1")>> >>
      [] OTHER -> <<>>

RootClasses ==
    {"Plain", "TopReq", "TopOpt", "TopVec", "TopX", "TopBad", "TopDeep", "TopNum"}

\* Classes whose constructor raises when called without arguments.
CtorFails == {"NeedsArg"}

\* get_type_hints(obj): [ok, hints].  A class gives its annotations after those
\* it inherits from Device.  Optional[...] and Signal[...] are typing aliases,
\* which get_type_hints rejects with a TypeError; DeviceVector[...] is a
\* types.GenericAlias (DeviceVector derives from Dict) and gives no hints.
get_type_hints(obj) ==
    IF obj.opt THEN [ok |-> FALSE, hints |-> <<>>]
    ELSE IF obj.vec THEN [ok |-> TRUE, hints |-> <<>>]
    ELSE IF obj.sig /\ obj.arg # "" THEN [ok |-> FALSE, hints |-> <<>>]
    ELSE [ok |-> TRUE, hints |-> IdentityHints \o OwnHints(obj.cls)]

\* dict.get on a sequence of <<key, value>> pairs.
DictHas(d, k) == \E i \in 1..Len(d) : d[i][1] = k
DictGet(d, k) == d[CHOOSE i \in 1..Len(d) : d[i][1] = k][2]
DictKeys(d) == {d[i][1] : i \in 1..Len(d)}

\* d[k] = v on an insertion-ordered dict: an existing key keeps its place.
DictSet(d, k, v) ==
    IF DictHas(d, k)
    THEN [i \in 1..Len(d) |-> IF d[i][1] = k THEN <<k, v>> ELSE d[i]]
    ELSE Append(d, <<k, v>>)

\* ---------------------------------------------------------------------------
\* The remote side: PVs and the tables a PV ending in ":PVI" reports.  A table
\* is a sequence of children in reported order, each [name, entries] with
\* entries the access-mode -> PV dict of the child, in reported order.
\* ---------------------------------------------------------------------------
PviPVs == {"ROOT:PVI", "M:PVI", "E:PVI", "K:PVI", "N:PVI", "BAD:PVI"}

\* pv.endswith(":PVI")
EndsWithPVI(pv) == pv \in PviPVs

DEFAULT_TIMEOUT == 10

Child(name, entries) == [name |-> name, entries |-> entries]

\* The sub-tables below the root: M has what Block1 declares, E is empty, K
\* lacks Block1's s, N has what Nest declares, BAD has a leaf of access mode d.
SubTable(pv) ==
    CASE pv = "M:PVI" -> << Child(N_s, << <<"rw", "PV:S">> >>) >>
      [] pv = "K:PVI" -> << Child(N_x, << <<"rw", "PV:KX">> >>) >>
      [] pv = "N:PVI" -> << Child(N_dv1, << <<"d", "M:PVI">> >>),
                            Child(N_dv2, << <<"d", "M:PVI">> >>) >>
      [] pv = "BAD:PVI" -> << Child(N_s, << <<"d", "PV:S">> >>) >>
      [] OTHER -> <<>>

\* The children a root table is drawn from.
Pool ==
    { Child(N_x, << <<"r", "PV:XR">>, <<"w", "PV:XW">> >>),
      Child(N_x, << <<"w", "PV:XW">>, <<"r", "PV:XR">> >>),
      Child(N_x, << <<"d", "PV:XR">> >>),
      Child(N_x, <<>>),
      Child(N_y1, << <<"rw", "PV:Y1">> >>),
      Child(N_y2, << <<"rw", "PV:Y2">> >>),
      Child(N_m, << <<"d", "M:PVI">> >>),
      Child(N_m, << <<"d", "E:PVI">> >>),
      Child(N_m, << <<"d", "K:PVI">> >>),
      Child(N_m, << <<"d", "BAD:PVI">> >>),
      Child(N_dv1, << <<"d", "M:PVI">> >>),
      Child(N_dv2, << <<"d", "M:PVI">> >>),
      Child(N_dv, << <<"d", "M:PVI">> >>),
      Child(N_t, << <<"x", "PV:T">> >>),
      Child(N_n, << <<"d", "N:PVI">> >>),
      Child(N_b1, << <<"d", "M:PVI">> >>) }

\* The widest root table drawn from the pool.
MaxChildren == 2

\* A table is a dict: no two children share a name.
DistinctNames(t) == \A i, j \in 1..Len(t) : t[i].name = t[j].name => i = j

\* Wider tables the tests and the documentation use.
WideTables ==
    { << Child(N_x, << <<"r", "PV:X">>, <<"w", "PV:X">> >>),
         Child(N_y1, << <<"rw", "PV:Y1">> >>),
         Child(N_y2, << <<"rw", "PV:Y2">> >>) >>,
      << Child(N_n, << <<"d", "N:PVI">> >>),
         Child(N_m, << <<"d", "M:PVI">> >>),
         Child(N_x, << <<"rw", "PV:XR">> >>) >>,
      << Child(N_dv2, << <<"d", "M:PVI">> >>),
         Child(N_dv1, << <<"d", "M:PVI">> >>),
         Child(N_y1, << <<"rw", "PV:Y1">> >>),
         Child(N_y2, << <<"rw", "PV:Y2">> >>) >> }

RootTables ==
    {t \in UNION {[1..n -> Pool] : n \in 0..MaxChildren} : DistinctNames(t)}
        \cup WideTables

RootPVs == {"ROOT:PVI", "ROOT", ""}

Timeouts == {DEFAULT_TIMEOUT, 5}

\* ---------------------------------------------------------------------------
\* Objects.  devs is the heap of Device objects (a Device, a Signal or a
\* DeviceVector), ents the heap of PVIEntry objects; an object is named by its
\* index.  attrs is the instance __dict__ setattr fills, items the dict content
\* of a DeviceVector, both in insertion order.
\* ---------------------------------------------------------------------------
NoPV == <<>>

Dev(cls, kind) ==
    [cls |-> cls, kind |-> kind, attrs |-> <<>>, items |-> <<>>, parent |-> None,
     read_pv |-> NoPV, write_pv |-> NoPV, dtype |-> "", backend |-> "", label |-> <<>>]

\* Device subclass instance, Device()
Device(cls) == Dev(cls, "device")

\* DeviceVector()
DeviceVector == Dev("DeviceVector", "vector")

epics_signal_rw(dtype, read_pv, write_pv) ==
    [Dev("SignalRW", "signal") EXCEPT !.dtype = dtype, !.backend = "pva",
                                      !.read_pv = read_pv, !.write_pv = write_pv]

epics_signal_r(dtype, read_pv) ==
    [Dev("SignalR", "signal") EXCEPT !.dtype = dtype, !.backend = "pva",
                                     !.read_pv = read_pv, !.write_pv = read_pv]

epics_signal_w(dtype, write_pv) ==
    [Dev("SignalW", "signal") EXCEPT !.dtype = dtype, !.backend = "pva",
                                     !.read_pv = write_pv, !.write_pv = write_pv]

epics_signal_x(write_pv) ==
    [Dev("SignalX", "signal") EXCEPT !.backend = "pva",
                                     !.read_pv = write_pv, !.write_pv = write_pv]

\* "pva://" + pv
Pva(pv) == <<"pva://", pv>>

\* The keys the _pvi_mapping dict has.
PviMappingKeys == {{"r", "w"}, {"rw"}, {"r"}, {"w"}, {"x"}}

\* _pvi_mapping as it would be if a set that is no key fell back to a bare
\* Signal (a dict.get with a default) instead of raising the KeyError.
_pvi_mapping_lenient(keys, dtype, pvs) ==
    [ok |-> TRUE,
     dev |-> CASE keys = {"r", "w"} -> epics_signal_rw(dtype, Pva(pvs[1]), Pva(pvs[2]))
               [] keys = {"rw"} -> epics_signal_rw(dtype, Pva(pvs[1]), Pva(pvs[1]))
               [] keys = {"r"} -> epics_signal_r(dtype, Pva(pvs[1]))
               [] keys = {"w"} -> epics_signal_w(dtype, Pva(pvs[1]))
               [] keys = {"x"} -> epics_signal_x(Pva(pvs[1]))
               [] OTHER -> Dev("Signal", "signal")]

\* _pvi_mapping[frozenset(pva_entries.keys())](signal_dtype, *pvs): [ok, dev],
\* ok = FALSE being the KeyError of a set that is no key.  The PVs are passed
\* by position, in the order the table reports them.
_pvi_mapping(keys, dtype, pvs) ==
    IF keys \notin PviMappingKeys THEN [ok |-> FALSE, dev |-> Device("")]
    ELSE [ok |-> TRUE,
          dev |-> CASE keys = {"r", "w"} -> epics_signal_rw(dtype, Pva(pvs[1]), Pva(pvs[2]))
                    [] keys = {"rw"} -> epics_signal_rw(dtype, Pva(pvs[1]), Pva(pvs[1]))
                    [] keys = {"r"} -> epics_signal_r(dtype, Pva(pvs[1]))
                    [] keys = {"w"} -> epics_signal_w(dtype, Pva(pvs[1]))
                    [] keys = {"x"} -> epics_signal_x(Pva(pvs[1]))]

\* _parse_type as it would be if an undeclared leaf with a numeric suffix were
\* made a DeviceVector member, as an undeclared table is.
_parse_type_aggregating(is_pvi_table, number_suffix, common_device_type) ==
    IF common_device_type # NoHint
    THEN LET stripped == _strip_device_vector(_strip_union(common_device_type))
             device_type == stripped[2]
         IN  [ok |-> ~(device_type.sig /\ device_type.arg = ""),
              is_device_vector |-> stripped[1],
              is_signal |-> device_type.sig,
              signal_dtype |-> device_type.arg,
              device_type |-> device_type]
    ELSE [ok |-> TRUE,
          is_device_vector |-> number_suffix # None,
          is_signal |-> ~is_pvi_table,
          signal_dtype |-> "",
          device_type |-> IF is_pvi_table THEN Cls("Device") ELSE Cls("Signal")]

\* _parse_type: [ok, is_device_vector, is_signal, signal_dtype, device_type];
\* ok = FALSE is the IndexError of get_args(device_type)[0] on a Signal class
\* that carries no type argument.
_parse_type(is_pvi_table, number_suffix, common_device_type) ==
    IF common_device_type # NoHint
    THEN LET stripped == _strip_device_vector(_strip_union(common_device_type))
             device_type == stripped[2]
         IN  [ok |-> ~(device_type.sig /\ device_type.arg = ""),
              is_device_vector |-> stripped[1],
              is_signal |-> device_type.sig,
              signal_dtype |-> device_type.arg,
              device_type |-> device_type]
    ELSE IF is_pvi_table
    THEN [ok |-> TRUE,
          is_device_vector |-> number_suffix # None,
          is_signal |-> FALSE,
          signal_dtype |-> "",
          device_type |-> Cls("Device")]
    ELSE [ok |-> TRUE,
          is_device_vector |-> FALSE,
          is_signal |-> TRUE,
          signal_dtype |-> "",
          device_type |-> Cls("Signal")]

\* PVIEntry(...).  A value of sub_entries is [dict, id, items]: a single entry
\* (its index id) or a dict number -> entry index (items).  up and idx record
\* which entry's table, and which child of it, the entry was made for.
PVIEntry(pvi_pv, device, common_device_type, up, idx) ==
    [sub_entries |-> <<>>, pvi_pv |-> pvi_pv, device |-> device,
     common_device_type |-> common_device_type, up |-> up, idx |-> idx]

Single(id) == [dict |-> FALSE, id |-> id, items |-> <<>>]
Dict(items) == [dict |-> TRUE, id |-> 0, items |-> items]

\* get_origin(tp); typing.Optional itself is never what it returns.
get_origin(tp) ==
    IF tp.opt THEN "typing.Union"
    ELSE IF tp.vec THEN "DeviceVector"
    ELSE IF tp.sig /\ tp.arg # "" THEN tp.cls
    ELSE "None"

NoError == [type |-> "", name |-> <<>>]
Error(type, name) == [type |-> type, name |-> name]

\* ---------------------------------------------------------------------------
\* _verify_common_blocks(entry, common_device) over the entry heap es: the error
\* it raises, or NoError.
\* ---------------------------------------------------------------------------
RECURSIVE _verify_common_blocks(_, _, _)
RECURSIVE VerifyHints(_, _, _, _)
RECURSIVE VerifyItems(_, _, _, _)

\* The loop over common_sub_devices.items(), from its j-th item on.
VerifyHints(es, e, hints, j) ==
    IF j > Len(hints) THEN NoError
    ELSE LET sub_name == hints[j][1]
             sub_device == hints[j][2]
             sub_entries == es[e].sub_entries
         IN  IF sub_name \in {N_name, N_parent} THEN VerifyHints(es, e, hints, j + 1)
             ELSE IF /\ ~DictHas(sub_entries, sub_name)
                     /\ get_origin(sub_device) # "typing.Optional"
             THEN Error("RuntimeError", sub_name)
             ELSE IF ~DictHas(sub_entries, sub_name) THEN Error("KeyError", sub_name)
             ELSE LET v == DictGet(sub_entries, sub_name)
                      r == IF v.dict THEN VerifyItems(es, v.items, sub_device, 1)
                           ELSE _verify_common_blocks(es, v.id, sub_device)
                  IN  IF r # NoError THEN r ELSE VerifyHints(es, e, hints, j + 1)

\* The loop over entry.sub_entries[sub_name].values(), from its k-th value on.
VerifyItems(es, items, sub_device, k) ==
    IF k > Len(items) THEN NoError
    ELSE LET r == _verify_common_blocks(es, items[k][2], sub_device)
         IN  IF r # NoError THEN r ELSE VerifyItems(es, items, sub_device, k + 1)

_verify_common_blocks(es, e, common_device) ==
    IF es[e].sub_entries = <<>> THEN NoError
    ELSE LET common_sub_devices == get_type_hints(common_device)
         IN  IF ~common_sub_devices.ok THEN Error("TypeError", <<>>)
             ELSE VerifyHints(es, e, common_sub_devices.hints, 1)

\* ---------------------------------------------------------------------------
\* _set_device_attributes(entry): the device heap after it, from the heap ds.
\* ---------------------------------------------------------------------------
RECURSIVE _set_device_attributes(_, _, _)
RECURSIVE SetSubEntries(_, _, _, _)
RECURSIVE SetItems(_, _, _, _, _)
RECURSIVE SetItems_parentSkipped(_, _, _, _, _)

\* SetItems as it would be if the parent of an element were not set to the
\* DeviceVector that holds it.
SetItems_parentSkipped(ds, es, items, k, vec) ==
    IF k > Len(items) THEN ds
    ELSE LET key == items[k][1]
             device_vector_sub_entry == items[k][2]
             d == es[device_vector_sub_entry].device
             ds1 == [ds EXCEPT ![vec].items = DictSet(@, key, d)]
             ds2 == IF es[device_vector_sub_entry].pvi_pv # ""
                    THEN _set_device_attributes(ds1, es, device_vector_sub_entry)
                    ELSE ds1
         IN  SetItems_parentSkipped(ds2, es, items, k + 1, vec)

\* The loop over sub_entry.items() of a dict, from its k-th item on; vec is the
\* DeviceVector being filled.
SetItems(ds, es, items, k, vec) ==
    IF k > Len(items) THEN ds
    ELSE LET key == items[k][1]
             device_vector_sub_entry == items[k][2]
             d == es[device_vector_sub_entry].device
             ds1 == [ds EXCEPT ![vec].items = DictSet(@, key, d)]
             ds2 == IF es[device_vector_sub_entry].pvi_pv # ""
                    THEN _set_device_attributes(ds1, es, device_vector_sub_entry)
                    ELSE ds1
             ds3 == [ds2 EXCEPT ![d].parent = vec]
         IN  SetItems(ds3, es, items, k + 1, vec)

\* The loop over entry.sub_entries.items(), from its j-th item on.
SetSubEntries(ds, es, e, j) ==
    IF j > Len(es[e].sub_entries) THEN ds
    ELSE LET sub_name == es[e].sub_entries[j][1]
             sub_entry == es[e].sub_entries[j][2]
             vec == Len(ds) + 1
             sub_device == IF sub_entry.dict THEN vec ELSE es[sub_entry.id].device
             ds1 == IF sub_entry.dict
                    THEN SetItems(Append(ds, DeviceVector), es, sub_entry.items, 1, vec)
                    ELSE IF es[sub_entry.id].pvi_pv # ""
                    THEN _set_device_attributes(ds, es, sub_entry.id)
                    ELSE ds
             ds2 == [ds1 EXCEPT ![sub_device].parent = es[e].device]
             ds3 == [ds2 EXCEPT ![es[e].device].attrs = DictSet(@, sub_name, sub_device)]
         IN  SetSubEntries(ds3, es, e, j + 1)

_set_device_attributes(ds, es, e) == SetSubEntries(ds, es, e, 1)

\* ---------------------------------------------------------------------------
\* _sim_common_blocks(device, stripped_type): [devs, err], the device heap it
\* leaves and the error it raises (NoError when it returns).
\* ---------------------------------------------------------------------------
\* sub_device_t(SimSignalBackend(signal_type, sub_name))
SimSignal(cls, signal_type, sub_name) ==
    [Dev(cls, "signal") EXCEPT !.dtype = signal_type, !.backend = "sim",
                               !.label = sub_name]

RECURSIVE _sim_common_blocks(_, _, _)
RECURSIVE SimHints(_, _, _, _)
RECURSIVE SimMembers(_, _, _, _)
RECURSIVE SimMembers_firstOnly(_, _, _, _)

\* SimMembers as it would be if only the first element of a DeviceVector were
\* filled.
SimMembers_firstOnly(ds, members, sub_device_t, k) ==
    IF k > 1 \/ k > Len(members) THEN [devs |-> ds, err |-> NoError]
    ELSE LET r == _sim_common_blocks(ds, members[k], sub_device_t)
         IN  IF r.err # NoError THEN r
             ELSE SimMembers_firstOnly(r.devs, members, sub_device_t, k + 1)

\* _sim_common_blocks on each of the devices `members`, from the k-th on.
SimMembers(ds, members, sub_device_t, k) ==
    IF k > Len(members) THEN [devs |-> ds, err |-> NoError]
    ELSE LET r == _sim_common_blocks(ds, members[k], sub_device_t)
         IN  IF r.err # NoError THEN r
             ELSE SimMembers(r.devs, members, sub_device_t, k + 1)

\* The loop over get_type_hints(device_t).items(), from its j-th item on.
SimHints(ds, device, hints, j) ==
    IF j > Len(hints) THEN [devs |-> ds, err |-> NoError]
    ELSE LET sub_name == hints[j][1]
             stripped == _strip_device_vector(_strip_union(hints[j][2]))
             is_device_vector == stripped[1]
             sub_device_t == stripped[2]
             is_signal == sub_device_t.sig
             signal_type == sub_device_t.arg
             n == Len(ds)
             made == IF is_signal THEN SimSignal(sub_device_t.cls, signal_type, sub_name)
                     ELSE Device(sub_device_t.cls)
             \* the new objects: the two elements and their DeviceVector, or one
             built == IF is_device_vector
                      THEN ds \o << [made EXCEPT !.parent = n + 3],
                                     [made EXCEPT !.parent = n + 3],
                                     [DeviceVector EXCEPT
                                         !.items = << <<1, n + 1>>, <<2, n + 2>> >>] >>
                      ELSE Append(ds, made)
             sub_device == IF is_device_vector THEN n + 3 ELSE n + 1
             members == IF is_device_vector THEN <<n + 1, n + 2>> ELSE <<n + 1>>
             filled == IF is_signal THEN [devs |-> built, err |-> NoError]
                       ELSE SimMembers(built, members, sub_device_t, 1)
         IN  IF sub_name \in {N_name, N_parent} THEN SimHints(ds, device, hints, j + 1)
             ELSE IF ~is_signal /\ sub_device_t.cls \in CtorFails
             THEN [devs |-> ds, err |-> Error("TypeError", sub_name)]
             ELSE IF filled.err # NoError THEN filled
             ELSE SimHints(
                    [filled.devs EXCEPT ![device].attrs = DictSet(@, sub_name, sub_device),
                                        ![sub_device].parent = device],
                    device, hints, j + 1)

_sim_common_blocks(ds, device, device_t) ==
    LET hints == get_type_hints(device_t)
    IN  IF ~hints.ok THEN [devs |-> ds, err |-> Error("TypeError", <<>>)]
        ELSE SimHints(ds, device, hints.hints, 1)

\* ---------------------------------------------------------------------------
\* State.
\*   pc            where fill_pvi_entries stands: "idle" before the call,
\*                 "connecting" while a table connect is awaited, "walking"
\*                 inside the loop of a _get_pvi_entries, "attach" before
\*                 _set_device_attributes, "set_name" before device.set_name,
\*                 "done" after the return, "failed" after an exception
\*   call          the arguments of the call
\*   devs, ents    the Device and PVIEntry heaps; devs[1] is the root device and
\*                 ents[1] the root entry
\*   stack         the active _get_pvi_entries calls, innermost last; a frame is
\*                 [entry, timeout, table, hints, i] with i the child the loop
\*                 is at
\*   error         the exception the call ended with
\*   trace         the connects issued, tables read, children entered and levels
\*                 verified so far, in order
\*   setNameCalls  how many times device.set_name was called
\*   args, ret     the arguments and the result of a helper that is called on its
\*                 own, outside fill_pvi_entries (SpecStrip, SpecParse)
\* ---------------------------------------------------------------------------
VARIABLES pc, call, devs, ents, stack, error, trace, setNameCalls, args, ret

vars == <<pc, call, devs, ents, stack, error, trace, setNameCalls, args, ret>>

\* An entry of trace: a connect issued for an entry (idx its timeout), the table
\* read for it, a child of its table entered (idx its position), its level
\* verified.
Event(op, entry, idx) == [op |-> op, entry |-> entry, idx |-> idx, table |-> <<>>]

Frame(entry, timeout) ==
    [entry |-> entry, timeout |-> timeout, table |-> <<>>, hints |-> <<>>, i |-> 0]

Top == stack[Len(stack)]

Init ==
    /\ pc = "idle"
    /\ call = [sim |-> FALSE, root_pv |-> "", timeout |-> 0]
    /\ \E cls \in RootClasses : devs = <<Device(cls)>>
    /\ ents = <<>>
    /\ stack = <<>>
    /\ error = NoError
    /\ trace = <<>>
    /\ setNameCalls = 0
    /\ args = <<>>
    /\ ret = <<>>

\* fill_pvi_entries(device, root_pv, sim=True): _sim_common_blocks(device).
fill_pvi_entries_sim ==
    /\ pc = "idle"
    /\ LET r == _sim_common_blocks(devs, 1, Cls(devs[1].cls))
       IN  /\ devs' = r.devs
           /\ error' = r.err
           /\ pc' = IF r.err = NoError THEN "set_name" ELSE "failed"
    /\ call' = [sim |-> TRUE, root_pv |-> "", timeout |-> DEFAULT_TIMEOUT]
    /\ UNCHANGED <<ents, stack, trace, setNameCalls, args, ret>>

\* fill_pvi_entries(device, root_pv, timeout): the root entry is made and
\* _get_pvi_entries(root_entry, timeout) runs up to its connect.
fill_pvi_entries(root_pv, timeout) ==
    /\ pc = "idle"
    /\ call' = [sim |-> FALSE, root_pv |-> root_pv, timeout |-> timeout]
    /\ ents' = <<PVIEntry(root_pv, 1, Cls(devs[1].cls), 0, 0)>>
    /\ IF root_pv = "" \/ ~EndsWithPVI(root_pv)
       THEN /\ pc' = "failed"
            /\ error' = Error("RuntimeError", <<>>)
            /\ UNCHANGED <<stack, trace>>
       ELSE /\ pc' = "connecting"
            /\ stack' = <<Frame(1, timeout)>>
            /\ trace' = Append(trace, Event("connect", 1, timeout))
            /\ UNCHANGED error
    /\ UNCHANGED <<devs, setNameCalls, args, ret>>

\* The tables a PV may report.
TablesAt(pv) == IF pv = "ROOT:PVI" THEN RootTables ELSE {SubTable(pv)}

\* The connect of the innermost _get_pvi_entries returns and get_value gives
\* the table; the type hints of the entry's type are read.
ConnectOk ==
    /\ pc = "connecting"
    /\ \E pva_table \in TablesAt(ents[Top.entry].pvi_pv) :
         LET common_device_type_hints == get_type_hints(ents[Top.entry].common_device_type)
         IN  /\ trace' = Append(trace, [Event("connected", Top.entry, 0)
                                             EXCEPT !.table = pva_table])
             /\ IF common_device_type_hints.ok
                THEN /\ stack' = [stack EXCEPT ![Len(stack)] =
                                     [@ EXCEPT !.table = pva_table,
                                               !.hints = common_device_type_hints.hints,
                                               !.i = 1]]
                     /\ pc' = "walking"
                     /\ UNCHANGED error
                ELSE /\ pc' = "failed"
                     /\ error' = Error("TypeError", <<>>)
                     /\ UNCHANGED stack
    /\ UNCHANGED <<call, devs, ents, setNameCalls, args, ret>>

\* ConnectTimeout as it would be if the failed connect were handled by binding
\* what had been found so far before the exception is passed on.
ConnectTimeout_binding ==
    /\ pc = "connecting"
    /\ pc' = "failed"
    /\ error' = Error("TimeoutError", <<>>)
    /\ devs' = _set_device_attributes(devs, ents, 1)
    /\ UNCHANGED <<call, ents, stack, trace, setNameCalls, args, ret>>

\* The connect of the innermost _get_pvi_entries times out.
ConnectTimeout ==
    /\ pc = "connecting"
    /\ pc' = "failed"
    /\ error' = Error("TimeoutError", <<>>)
    /\ UNCHANGED <<call, devs, ents, stack, trace, setNameCalls, args, ret>>

\* list(pva_entries.values()) and pva_entries.keys()
Values(pva_entries) == [k \in 1..Len(pva_entries) |-> pva_entries[k][2]]

\* What one pass of the loop of _get_pvi_entries leaves: [err, devs, ents,
\* is_pvi_table, sub], sub being the new entry.  LoopRaised is a pass that
\* raised an exception of the given type at the child sub_name.
LoopRaised(type, sub_name, ds, es, is_pvi_table) ==
    [err |-> Error(type, sub_name), devs |-> ds, ents |-> es,
     is_pvi_table |-> is_pvi_table, sub |-> Len(es)]

\* Aggregate as it would be if a child that is no DeviceVector member were
\* stored under its base name, the digits stripped, as a member is.
Aggregate_underBaseName(ds, es, frame, is_pvi_table, split, parsed, device) ==
    LET sub_name == frame.table[frame.i].name
        sub == Len(es) + 1
        sub_entry == [PVIEntry("", Len(ds) + 1, parsed.device_type, frame.entry, frame.i)
                         EXCEPT !.pvi_pv = IF is_pvi_table
                                           THEN Values(frame.table[frame.i].entries)[1]
                                           ELSE ""]
        sub_entries == es[frame.entry].sub_entries
        sub_number_split == IF split.number = None THEN 1 ELSE split.number
        old == IF DictHas(sub_entries, split.name)
               THEN DictGet(sub_entries, split.name) ELSE Dict(<<>>)
    IN  IF parsed.is_device_vector /\ ~old.dict
        THEN LoopRaised("TypeError", sub_name, Append(ds, device),
                        Append(es, sub_entry), is_pvi_table)
        ELSE [err |-> NoError,
              devs |-> Append(ds, device),
              ents |-> [Append(es, sub_entry) EXCEPT ![frame.entry].sub_entries =
                          IF parsed.is_device_vector
                          THEN DictSet(@, split.name,
                                       Dict(DictSet(old.items, sub_number_split, sub)))
                          ELSE DictSet(@, split.name, Single(sub))],
              is_pvi_table |-> is_pvi_table,
              sub |-> sub]

\* The end of the pass: the PVIEntry of the child is made and stored in the
\* sub_entries of the frame's entry, under the base name and the number for a
\* DeviceVector member, under the full name otherwise.
Aggregate(ds, es, frame, is_pvi_table, split, parsed, device) ==
    LET sub_name == frame.table[frame.i].name
        sub == Len(es) + 1
        sub_entry == [PVIEntry("", Len(ds) + 1, parsed.device_type, frame.entry, frame.i)
                         EXCEPT !.pvi_pv = IF is_pvi_table
                                           THEN Values(frame.table[frame.i].entries)[1]
                                           ELSE ""]
        sub_entries == es[frame.entry].sub_entries
        sub_number_split == IF split.number = None THEN 1 ELSE split.number
        old == IF DictHas(sub_entries, split.name)
               THEN DictGet(sub_entries, split.name) ELSE Dict(<<>>)
    IN  IF parsed.is_device_vector /\ ~old.dict
        THEN LoopRaised("TypeError", sub_name, Append(ds, device),
                        Append(es, sub_entry), is_pvi_table)
        ELSE [err |-> NoError,
              devs |-> Append(ds, device),
              ents |-> [Append(es, sub_entry) EXCEPT ![frame.entry].sub_entries =
                          IF parsed.is_device_vector
                          THEN DictSet(@, split.name,
                                       Dict(DictSet(old.items, sub_number_split, sub)))
                          ELSE DictSet(@, sub_name, Single(sub))],
              is_pvi_table |-> is_pvi_table,
              sub |-> sub]

\* The middle of the pass: the device of the child is made, by _pvi_mapping for
\* a signal and by device_type() otherwise.
Construct(ds, es, frame, is_pvi_table, split, parsed) ==
    LET sub_name == frame.table[frame.i].name
        pva_entries == frame.table[frame.i].entries
        signal == _pvi_mapping(DictKeys(pva_entries), parsed.signal_dtype,
                               Values(pva_entries))
    IN  IF ~parsed.ok THEN LoopRaised("IndexError", sub_name, ds, es, is_pvi_table)
        ELSE IF parsed.is_signal
        THEN IF ~signal.ok THEN LoopRaised("KeyError", sub_name, ds, es, is_pvi_table)
             ELSE Aggregate(ds, es, frame, is_pvi_table, split, parsed, signal.dev)
        ELSE IF parsed.device_type.cls \in CtorFails
        THEN LoopRaised("TypeError", sub_name, ds, es, is_pvi_table)
        ELSE Aggregate(ds, es, frame, is_pvi_table, split, parsed,
                       Device(parsed.device_type.cls))

\* The start of the pass, once the name is split: the type of the child is
\* resolved from the hint of its base name.
Classify(ds, es, frame, is_pvi_table, split) ==
    IF ~split.ok
    THEN LoopRaised("AssertionError", frame.table[frame.i].name, ds, es, is_pvi_table)
    ELSE Construct(ds, es, frame, is_pvi_table, split,
                   _parse_type(is_pvi_table, split.number,
                               IF DictHas(frame.hints, split.name)
                               THEN DictGet(frame.hints, split.name) ELSE NoHint))

\* One pass of the loop of _get_pvi_entries over pva_table.items(), for the
\* child the frame is at.
LoopBody(ds, es, frame) ==
    Classify(ds, es, frame,
             /\ Len(frame.table[frame.i].entries) = 1
             /\ EndsWithPVI(Values(frame.table[frame.i].entries)[1]),
             _strip_number_from_string(frame.table[frame.i].name))

\* ProcessChild as it would be if the _get_pvi_entries of a child table were
\* started without being awaited, the loop going on to the next child.
ProcessChild_notAwaited ==
    /\ pc = "walking"
    /\ Top.i <= Len(Top.table)
    /\ LET r == LoopBody(devs, ents, Top)
       IN  /\ devs' = r.devs
           /\ ents' = r.ents
           /\ error' = r.err
           /\ pc' = IF r.err # NoError THEN "failed" ELSE "walking"
           /\ stack' = IF r.err # NoError THEN stack
                       ELSE [stack EXCEPT ![Len(stack)].i = @ + 1]
           /\ trace' = IF r.err = NoError /\ r.is_pvi_table
                       THEN trace \o <<Event("child", Top.entry, Top.i),
                                       Event("connect", r.sub, DEFAULT_TIMEOUT)>>
                       ELSE Append(trace, Event("child", Top.entry, Top.i))
    /\ UNCHANGED <<call, setNameCalls, args, ret>>

\* The loop of the innermost _get_pvi_entries takes its next child; a child that
\* is a table starts _get_pvi_entries(sub_entry), which runs up to its connect.
ProcessChild ==
    /\ pc = "walking"
    /\ Top.i <= Len(Top.table)
    /\ LET r == LoopBody(devs, ents, Top)
       IN  /\ devs' = r.devs
           /\ ents' = r.ents
           /\ error' = r.err
           /\ IF r.err # NoError
              THEN /\ pc' = "failed"
                   /\ trace' = Append(trace, Event("child", Top.entry, Top.i))
                   /\ UNCHANGED stack
              ELSE IF r.is_pvi_table
              THEN /\ pc' = "connecting"
                   /\ stack' = Append(stack, Frame(r.sub, DEFAULT_TIMEOUT))
                   /\ trace' = trace \o <<Event("child", Top.entry, Top.i),
                                          Event("connect", r.sub, DEFAULT_TIMEOUT)>>
              ELSE /\ pc' = "walking"
                   /\ stack' = [stack EXCEPT ![Len(stack)].i = @ + 1]
                   /\ trace' = Append(trace, Event("child", Top.entry, Top.i))
    /\ UNCHANGED <<call, setNameCalls, args, ret>>

\* The loop of the innermost _get_pvi_entries is over: the level is verified and
\* the call returns, to the loop of its caller or to fill_pvi_entries.
VerifyLevel ==
    /\ pc = "walking"
    /\ Top.i > Len(Top.table)
    /\ LET r == _verify_common_blocks(ents, Top.entry, ents[Top.entry].common_device_type)
       IN  /\ error' = r
           /\ trace' = Append(trace, Event("verify", Top.entry, 0))
           /\ IF r # NoError
              THEN pc' = "failed" /\ UNCHANGED stack
              ELSE IF Len(stack) = 1
              THEN pc' = "attach" /\ stack' = <<>>
              ELSE /\ pc' = "walking"
                   /\ stack' = [SubSeq(stack, 1, Len(stack) - 1)
                                   EXCEPT ![Len(stack) - 1].i = @ + 1]
    /\ UNCHANGED <<call, devs, ents, setNameCalls, args, ret>>

\* Attach as it would be if device.set_name were called in its place, before
\* anything is bound.
Attach_skipped ==
    /\ pc = "attach"
    /\ pc' = "set_name"
    /\ UNCHANGED <<call, devs, ents, stack, error, trace, setNameCalls, args, ret>>

\* _set_device_attributes(root_entry)
Attach ==
    /\ pc = "attach"
    /\ devs' = _set_device_attributes(devs, ents, 1)
    /\ pc' = "set_name"
    /\ UNCHANGED <<call, ents, stack, error, trace, setNameCalls, args, ret>>

\* device.set_name(device.name), the last statement of fill_pvi_entries.
SetName ==
    /\ pc = "set_name"
    /\ setNameCalls' = setNameCalls + 1
    /\ pc' = "done"
    /\ UNCHANGED <<call, devs, ents, stack, error, trace, args, ret>>

Next ==
    \/ fill_pvi_entries_sim
    \/ \E root_pv \in RootPVs, timeout \in Timeouts : fill_pvi_entries(root_pv, timeout)
    \/ ConnectOk
    \/ ConnectTimeout
    \/ ProcessChild
    \/ VerifyLevel
    \/ Attach
    \/ SetName

Spec == Init /\ [][Next]_vars

TypeOK ==
    /\ pc \in {"idle", "connecting", "walking", "attach", "set_name", "done", "failed"}
    /\ setNameCalls \in 0..1
\* ---------------------------------------------------------------------------
\* The helpers called on their own.  args holds the arguments of the call, ret
\* what it returned; everything fill_pvi_entries works on stays empty.
\* ---------------------------------------------------------------------------
NoRet == <<>>

NoRun ==
    /\ call = [sim |-> FALSE, root_pv |-> "", timeout |-> 0]
    /\ devs = <<>>
    /\ ents = <<>>
    /\ stack = <<>>
    /\ error = NoError
    /\ trace = <<>>
    /\ setNameCalls = 0

\* The characters strings are made of: a letter, two digits and the newline.
StringChars == {"a", "0", "7", "\n"}

\* The longest string _strip_number_from_string is called on.
MaxLen == 3

Strings == UNION {[1..n -> StringChars] : n \in 0..MaxLen}

InitStrip ==
    /\ pc = "idle"
    /\ args \in Strings
    /\ ret = NoRet
    /\ NoRun

\* _strip_number_from_string(args): it returns, or its `assert match` raises.
StripNumber ==
    /\ pc = "idle"
    /\ ret' = _strip_number_from_string(args)
    /\ pc' = IF ret'.ok THEN "done" ELSE "failed"
    /\ error' = IF ret'.ok THEN NoError ELSE Error("AssertionError", args)
    /\ UNCHANGED <<call, devs, ents, stack, trace, setNameCalls, args>>

SpecStrip == InitStrip /\ [][StripNumber]_vars

\* The numeric suffixes and the declared types _parse_type is called on: none,
\* or a class, a Signal with a type argument or a Signal without one, each as
\* it is, in a DeviceVector, in an Optional, or in both.
Suffixes == {None, 0, 1, 2}

DeclaredTypes ==
    {NoHint} \cup
    {Hint(o, v, h.sig, h.cls, h.arg) :
        o \in BOOLEAN, v \in BOOLEAN,
        h \in {Cls("Block1"), Sig("SignalRW", "int"), Sig("SignalR", "float"),
               Sig("SignalX", "")}}

InitParse ==
    /\ pc = "idle"
    /\ args \in [is_pvi_table : BOOLEAN, number_suffix : Suffixes,
                 common_device_type : DeclaredTypes]
    /\ ret = NoRet
    /\ NoRun

\* _parse_type(*args): it returns, or get_args(device_type)[0] raises.
ParseType ==
    /\ pc = "idle"
    /\ ret' = _parse_type(args.is_pvi_table, args.number_suffix, args.common_device_type)
    /\ pc' = IF ret'.ok THEN "done" ELSE "failed"
    /\ error' = IF ret'.ok THEN NoError ELSE Error("IndexError", <<>>)
    /\ UNCHANGED <<call, devs, ents, stack, trace, setNameCalls, args>>

SpecParse == InitParse /\ [][ParseType]_vars

\* ---------------------------------------------------------------------------
\* Properties.
\* ---------------------------------------------------------------------------
\* The events of trace with operation op for entry e.
Events(op, e) == {k \in 1..Len(trace) : trace[k].op = op /\ trace[k].entry = e}

\* Every connect issued so far was answered and its level verified, the root's
\* level last.
AllFetchedAndVerified ==
    /\ trace # <<>>
    /\ trace[Len(trace)].op = "verify" /\ trace[Len(trace)].entry = 1
    /\ \A k \in 1..Len(trace) :
         trace[k].op = "connect" =>
           /\ \E j \in Events("connected", trace[k].entry) : j > k
           /\ \E j \in Events("verify", trace[k].entry) : j > k

\* C1: a discover that fails leaves the root device as it was and never asks for
\* name propagation, and the root device gets its first attribute only once
\* every connect was answered and every level verified without an error.
C1_DiscoverAllOrNothing ==
    ~call.sim =>
      /\ pc = "failed" => devs[1] = Device(devs[1].cls) /\ setNameCalls = 0
      /\ devs[1] # Device(devs[1].cls) =>
           /\ pc \in {"set_name", "done"}
           /\ stack = <<>>
           /\ error = NoError
           /\ AllFetchedAndVerified

\* A nested connect timed out after devices had been built for the root table.
C1_Witness ==
    /\ ~call.sim
    /\ pc = "failed"
    /\ error.type = "TimeoutError"
    /\ Len(stack) >= 2
    /\ ents[1].sub_entries # <<>>

\* C2 as claimed: a simulate that fails leaves the root device without any
\* attribute and never asks for name propagation.
C2_SimulateAllOrNothing ==
    call.sim /\ pc = "failed" => devs[1].attrs = <<>> /\ setNameCalls = 0

\* The declared attributes of entry e's type, the identity ones left out.
Declared(e) ==
    LET h == get_type_hints(ents[e].common_device_type).hints
    IN  {h[j] : j \in {i \in 1..Len(h) : h[i][1] \notin {N_name, N_parent}}}

\* The names of the declared attributes of entry e that the discovered children
\* lack, those of a non-optional type and those of an optional type.
RequiredMissing(e) ==
    {a[1] : a \in {b \in Declared(e) : ~b[2].opt /\ ~DictHas(ents[e].sub_entries, b[1])}}

OptionalMissing(e) ==
    {a[1] : a \in {b \in Declared(e) : b[2].opt /\ ~DictHas(ents[e].sub_entries, b[1])}}

\* The verification of entry e's level was the last thing done, and it raised.
VerifyRaised(e) ==
    /\ pc = "failed"
    /\ trace[Len(trace)].op = "verify"
    /\ trace[Len(trace)].entry = e

\* C3 as claimed: whatever children a level has, its verification fails with a
\* RuntimeError naming a missing attribute of a non-optional type when there is
\* one, and nothing is attached to the root device.
C3_RequiredChildMissingFails ==
    \A k \in 1..Len(trace) :
      trace[k].op = "verify" /\ RequiredMissing(trace[k].entry) # {} =>
        /\ VerifyRaised(trace[k].entry)
        /\ error.type = "RuntimeError"
        /\ error.name \in RequiredMissing(trace[k].entry)
        /\ devs[1].attrs = <<>>

\* C4 as claimed: the verification of a level that lacks only attributes of an
\* optional type raises nothing.
C4_OptionalChildMayBeAbsent ==
    \A k \in 1..Len(trace) :
      /\ trace[k].op = "verify"
      /\ RequiredMissing(trace[k].entry) = {}
      /\ OptionalMissing(trace[k].entry) # {}
      => ~VerifyRaised(trace[k].entry)

\* The root table has been read, and the table it was.
RootTableRead == Len(trace) >= 2 /\ trace[2].op = "connected"
RootTable == trace[2].table

\* A child of a table that is no nested table.
IsLeaf(child) == ~(Len(child.entries) = 1 /\ EndsWithPVI(child.entries[1][2]))

\* The attribute names of device d, and the device bound to one of them.
AttrNames(ds, d) == DictKeys(ds[d].attrs)
Attr(ds, d, name) == DictGet(ds[d].attrs, name)

\* The table {"x": {"r": "PV:X", "w": "PV:X"}, "y1": {"rw": "PV:Y1"},
\* "y2": {"rw": "PV:Y2"}}.
XY1Y2Table ==
    << Child(N_x, << <<"r", "PV:X">>, <<"w", "PV:X">> >>),
       Child(N_y1, << <<"rw", "PV:Y1">> >>),
       Child(N_y2, << <<"rw", "PV:Y2">> >>) >>

\* Device d is a read/write endpoint.
IsReadWrite(d) == devs[d].kind = "signal" /\ devs[d].cls = "SignalRW"

\* A discover of the root table tbl into a device without annotations returned.
DiscoveredPlain(tbl) ==
    /\ ~call.sim
    /\ pc = "done"
    /\ devs[1].cls = "Plain"
    /\ RootTable = tbl

\* C5 as claimed: the table x, y1, y2 discovered without a declared schema gives
\* a root with x as one read/write endpoint and one collection y holding
\* read/write endpoints at the indices 1 and 2.
C5_LeavesAggregated ==
    DiscoveredPlain(XY1Y2Table) =>
      /\ AttrNames(devs, 1) = {N_x, N_y}
      /\ IsReadWrite(Attr(devs, 1, N_x))
      /\ devs[Attr(devs, 1, N_y)].kind = "vector"
      /\ DictKeys(devs[Attr(devs, 1, N_y)].items) = {1, 2}

\* C5 as amended: every leaf child of the root table whose base name has no
\* declared type becomes an endpoint bound under its full reported name, digits
\* included, with the root as its parent; the table x, y1, y2 gives exactly the
\* three read/write endpoints x, y1 and y2 and no collection.
C5_LeavesKeepFullName ==
    ~call.sim /\ pc = "done" =>
      /\ \A i \in 1..Len(RootTable) :
           LET child == RootTable[i]
               base == _strip_number_from_string(child.name).name
           IN  IsLeaf(child) /\ ~DictHas(OwnHints(devs[1].cls), base) =>
                 /\ child.name \in AttrNames(devs, 1)
                 /\ devs[Attr(devs, 1, child.name)].kind = "signal"
                 /\ devs[Attr(devs, 1, child.name)].parent = 1
      /\ DiscoveredPlain(XY1Y2Table) =>
           /\ AttrNames(devs, 1) = {N_x, N_y1, N_y2}
           /\ \A name \in AttrNames(devs, 1) : IsReadWrite(Attr(devs, 1, name))
           /\ devs[Attr(devs, 1, N_x)].read_pv = Pva("PV:X")
           /\ devs[Attr(devs, 1, N_y1)].read_pv = Pva("PV:Y1")
           /\ devs[Attr(devs, 1, N_y2)].write_pv = Pva("PV:Y2")

\* The table x, y1, y2 was discovered into a device without annotations.
C5_Witness == DiscoveredPlain(XY1Y2Table)

\* The number of connects issued and not yet answered.
InFlight ==
    Cardinality({k \in 1..Len(trace) : trace[k].op = "connect"})
      - Cardinality({k \in 1..Len(trace) : trace[k].op = "connected"})

\* The position, in the table of entry p, of the child that entry e is or lies
\* below; 0 when e does not lie below p.
RECURSIVE Branch(_, _)
Branch(e, p) ==
    IF e = 0 THEN 0
    ELSE IF ents[e].up = p THEN ents[e].idx
    ELSE Branch(ents[e].up, p)

\* C6: at most one connect is unanswered at any time and nothing else is done
\* while it is; the connect for a child's table comes after the parent's table
\* was read; the connects for the child tables of one table come in the order the
\* table reports the children; and when a child is entered, every table below an
\* earlier child of the same table has been read and verified.
C6_SequentialDepthFirst ==
    /\ InFlight \in {0, 1}
    /\ InFlight = 1 => trace[Len(trace)].op = "connect"
    /\ \A k \in 1..Len(trace) :
         trace[k].op = "connect" /\ ents[trace[k].entry].up # 0 =>
           \E j \in Events("connected", ents[trace[k].entry].up) : j < k
    /\ \A k1, k2 \in 1..Len(trace) :
         /\ k1 < k2
         /\ trace[k1].op = "connect" /\ trace[k2].op = "connect"
         /\ ents[trace[k1].entry].up = ents[trace[k2].entry].up
         => ents[trace[k1].entry].idx < ents[trace[k2].entry].idx
    /\ \A k \in 1..Len(trace) : \A e \in 1..Len(ents) :
         /\ trace[k].op = "child"
         /\ ents[e].pvi_pv # ""
         /\ Branch(e, trace[k].entry) \in 1..(trace[k].idx - 1)
         => /\ \E j \in Events("connected", e) : j < k
            /\ \E j \in Events("verify", e) : j < k

\* A discover returned that read two child tables of the root, the first of
\* which has a child table of its own.
C6_Witness ==
    /\ pc = "done"
    /\ \E e1, e2, e3 \in 1..Len(ents) :
         /\ ents[e1].pvi_pv # "" /\ ents[e2].pvi_pv # "" /\ ents[e3].pvi_pv # ""
         /\ ents[e1].up = 1 /\ ents[e2].up = 1 /\ ents[e1].idx < ents[e2].idx
         /\ ents[e3].up = e1

\* Entry e is part of the discovery tree: the root entry, or an entry that the
\* sub_entries of its parent entry hold and whose parent is part of the tree.
RECURSIVE Linked(_)
Linked(e) ==
    \/ e = 1
    \/ /\ e > 1
       /\ \E i \in 1..Len(ents[ents[e].up].sub_entries) :
            LET v == ents[ents[e].up].sub_entries[i][2]
            IN  IF v.dict THEN \E n \in 1..Len(v.items) : v.items[n][2] = e
                ELSE v.id = e
       /\ Linked(ents[e].up)

\* Device d has a parent, and that parent holds d as an attribute or as an
\* element.
Attached(d) ==
    /\ devs[d].parent # None
    /\ LET p == devs[devs[d].parent]
       IN  \/ \E i \in 1..Len(p.attrs) : p.attrs[i][2] = d
           \/ \E i \in 1..Len(p.items) : p.items[i][2] = d

\* The devices of the tree below the root: in a discover those of the entries of
\* the discovery tree and the DeviceVectors made for them, in a simulate every
\* device made.
TreeDevices ==
    IF call.sim THEN 2..Len(devs)
    ELSE {ents[e].device : e \in {f \in 2..Len(ents) : Linked(f)}}
           \cup {d \in 2..Len(devs) : devs[d].kind = "vector"}

\* C7: in both modes name propagation is asked for at most once, exactly once by
\* the time the call has returned, never in a call that failed or that is still
\* walking, verifying or binding, and at the moment it is asked for every device
\* of the tree is bound to its parent and has its parent reference.
C7_SetNameOnceAtTheEnd ==
    /\ setNameCalls \in {0, 1}
    /\ setNameCalls = 1 <=> pc = "done"
    /\ pc \in {"set_name", "done"} =>
         /\ stack = <<>>
         /\ error = NoError
         /\ \A d \in TreeDevices : Attached(d)

\* A discover that built a DeviceVector returned, name propagation asked for.
C7_Witness ==
    /\ pc = "done"
    /\ ~call.sim
    /\ setNameCalls = 1
    /\ \E d \in 2..Len(devs) : devs[d].kind = "vector" /\ Len(devs[d].items) = 2

\* The table read for entry p.
TableOf(p) == trace[CHOOSE k \in Events("connected", p) : TRUE].table

\* The child at position i of the table of entry p is resolved as an endpoint.
ResolvedAsEndpoint(p, i) ==
    LET child == TableOf(p)[i]
        hints == get_type_hints(ents[p].common_device_type).hints
        split == _strip_number_from_string(child.name)
        parsed == _parse_type(
                    ~IsLeaf(child), split.number,
                    IF DictHas(hints, split.name) THEN DictGet(hints, split.name)
                    ELSE NoHint)
    IN  split.ok /\ parsed.ok /\ parsed.is_signal

\* C8: when a child resolved as an endpoint is entered and its access modes are
\* not exactly {r}, {w}, {r, w}, {rw} or {x}, the call fails there with a
\* KeyError, the root device is left as it was and name propagation is never
\* asked for.
C8_UnsupportedAccessModeFails ==
    \A k \in 1..Len(trace) :
      /\ trace[k].op = "child"
      /\ ResolvedAsEndpoint(trace[k].entry, trace[k].idx)
      /\ DictKeys(TableOf(trace[k].entry)[trace[k].idx].entries)
           \notin {{"r"}, {"w"}, {"r", "w"}, {"rw"}, {"x"}}
      => /\ k = Len(trace)
         /\ pc = "failed"
         /\ error.type = "KeyError"
         /\ devs[1] = Device(devs[1].cls)
         /\ setNameCalls = 0

\* A leaf of access mode d in a nested table made the discover fail.
C8_Witness ==
    /\ pc = "failed"
    /\ error.type = "KeyError"
    /\ Len(stack) = 2
    /\ DictKeys(Top.table[Top.i].entries) = {"d"}

\* The names a table has to report for the annotations of class cls: the name
\* itself, or the name followed by 1 and by 2 for a DeviceVector.
ExpectedNames(cls) ==
    UNION {IF OwnHints(cls)[j][2].vec
           THEN {OwnHints(cls)[j][1] \o <<"1">>, OwnHints(cls)[j][1] \o <<"2">>}
           ELSE {OwnHints(cls)[j][1]} : j \in 1..Len(OwnHints(cls))}

\* The annotation of cls that the reported name stands for.
HintFor(cls, name) ==
    LET j == CHOOSE i \in 1..Len(OwnHints(cls)) :
               name \in IF OwnHints(cls)[i][2].vec
                        THEN {OwnHints(cls)[i][1] \o <<"1">>, OwnHints(cls)[i][1] \o <<"2">>}
                        ELSE {OwnHints(cls)[i][1]}
    IN  OwnHints(cls)[j][2]

\* The table tbl, with the tables below it, provides exactly what the class cls
\* declares: a leaf with supported access modes for a Signal, a nested table
\* that provides what the class declares for a Device.
RECURSIVE Provides(_, _)
Provides(tbl, cls) ==
    /\ DistinctNames(tbl)
    /\ {tbl[i].name : i \in 1..Len(tbl)} = ExpectedNames(cls)
    /\ \A i \in 1..Len(tbl) :
         LET h == HintFor(cls, tbl[i].name)
         IN  IF h.sig
             THEN /\ IsLeaf(tbl[i])
                  /\ DictKeys(tbl[i].entries) \in {{"r"}, {"w"}, {"r", "w"}, {"rw"}, {"x"}}
             ELSE /\ ~IsLeaf(tbl[i])
                  /\ Provides(SubTable(tbl[i].entries[1][2]), h.cls)

\* The device d1 of heap ds1 and the device d2 of heap ds2 have the same
\* attribute names, each a DeviceVector in both or in neither, with the same
\* indices, and the same holds of the devices bound to them.
RECURSIVE SameShape(_, _, _, _)
SameShape(ds1, d1, ds2, d2) ==
    /\ AttrNames(ds1, d1) = AttrNames(ds2, d2)
    /\ \A name \in AttrNames(ds1, d1) :
         LET c1 == Attr(ds1, d1, name)
             c2 == Attr(ds2, d2, name)
         IN  /\ (ds1[c1].kind = "vector") = (ds2[c2].kind = "vector")
             /\ IF ds1[c1].kind = "vector"
                THEN /\ DictKeys(ds1[c1].items) = DictKeys(ds2[c2].items)
                     /\ \A n \in DictKeys(ds1[c1].items) :
                          SameShape(ds1, DictGet(ds1[c1].items, n),
                                    ds2, DictGet(ds2[c2].items, n))
                ELSE SameShape(ds1, c1, ds2, c2)

\* What a simulate of a fresh device of class cls gives.
Simulated(cls) == _sim_common_blocks(<<Device(cls)>>, 1, Cls(cls))

\* C9 as claimed: a discover whose connects all succeed, of a table tree that
\* provides exactly what the class of the root device declares, returns with
\* a tree of the same attribute names and the same collection shape at every
\* level as the one simulate builds for that class.
C9_SimulateAndDiscoverAgree ==
    /\ ~call.sim
    /\ pc \in {"done", "failed"}
    /\ error.type # "TimeoutError"
    /\ RootTableRead
    /\ Provides(RootTable, devs[1].cls)
    /\ Simulated(devs[1].cls).err = NoError
    => /\ pc = "done"
       /\ SameShape(devs, 1, Simulated(devs[1].cls).devs, 1)

\* The names the class cls declares.
DeclaredNames(cls) == {OwnHints(cls)[j][1] : j \in 1..Len(OwnHints(cls))}

\* C10: after a simulate every DeviceVector annotation of the class of every
\* Device built, at whatever depth, is bound to a DeviceVector with exactly the
\* indices 1 and 2 holding two different devices, and when the element type is
\* no Signal both elements have the attributes that type declares and the same
\* shape below them.
C10_SimulatedVectorsHaveTwoAlikeElements ==
    call.sim /\ pc \in {"set_name", "done"} =>
      \A d \in 1..Len(devs) : \A j \in 1..Len(OwnHints(devs[d].cls)) :
        LET name == OwnHints(devs[d].cls)[j][1]
            hint == OwnHints(devs[d].cls)[j][2]
            v == Attr(devs, d, name)
            one == devs[v].items[1][2]
            two == devs[v].items[2][2]
        IN  devs[d].kind = "device" /\ hint.vec =>
              /\ name \in AttrNames(devs, d)
              /\ devs[v].kind = "vector"
              /\ Len(devs[v].items) = 2
              /\ devs[v].items[1][1] = 1 /\ devs[v].items[2][1] = 2
              /\ one # two
              /\ devs[one].parent = v /\ devs[two].parent = v
              /\ ~hint.sig =>
                   /\ AttrNames(devs, one) = DeclaredNames(hint.cls)
                   /\ AttrNames(devs, two) = DeclaredNames(hint.cls)
                   /\ SameShape(devs, one, devs, two)

\* A simulate returned that built a DeviceVector of Devices one level below the
\* root.
C10_Witness ==
    /\ call.sim
    /\ pc = "done"
    /\ \E d \in 2..Len(devs) : \E v \in 2..Len(devs) :
         /\ devs[d].kind = "device" /\ devs[d].parent = 1
         /\ devs[v].kind = "vector" /\ devs[v].parent = d
         /\ devs[devs[v].items[1][2]].attrs # <<>>

\* The trailing digits of a string: what follows its last character that is no
\* digit.
TrailingDigits(s) ==
    LET nondigits == {j \in 1..Len(s) : s[j] \notin Digits}
        last == IF nondigits = {} THEN 0
                ELSE CHOOSE j \in nondigits : \A i \in nondigits : i <= j
    IN  SubSeq(s, last + 1, Len(s))

\* C11 as claimed: on every string the parser returns (base, index) with the
\* string being base followed by its trailing digits, base not ending in a
\* digit, index the decimal value of the trailing digits and none when there
\* are none; so base is empty only when the whole string is digits, and a string
\* with no trailing digit gives (string, none).
C11_ParserTotalAndMaximal ==
    pc # "idle" =>
      /\ pc = "done"
      /\ ret.ok
      /\ args = ret.name \o TrailingDigits(args)
      /\ ret.name = <<>> \/ ret.name[Len(ret.name)] \notin Digits
      /\ ret.number = IF TrailingDigits(args) = <<>> THEN None
                      ELSE int(TrailingDigits(args))
      /\ ret.name = <<>> => \A j \in 1..Len(args) : args[j] \in Digits
      /\ TrailingDigits(args) = <<>> => ret.name = args /\ ret.number = None

\* C12 as claimed: every connect issued in a discover, for the root table and
\* for every nested table, is given the timeout the caller passed.
C12_EveryFetchUsesCallerTimeout ==
    ~call.sim =>
      \A k \in 1..Len(trace) : trace[k].op = "connect" => trace[k].idx = call.timeout

\* C13 as claimed: the endpoint built for a child resolved as an endpoint whose
\* access modes are r and w reads from the PV the table gives under r and
\* writes to the PV it gives under w, in whichever order the table gives them.
C13_ReadWriteAddressesByMode ==
    \A e \in 2..Len(ents) :
      LET child == TableOf(ents[e].up)[ents[e].idx]
      IN  /\ ResolvedAsEndpoint(ents[e].up, ents[e].idx)
          /\ DictKeys(child.entries) = {"r", "w"}
          => /\ devs[ents[e].device].cls = "SignalRW"
             /\ devs[ents[e].device].read_pv = Pva(DictGet(child.entries, "r"))
             /\ devs[ents[e].device].write_pv = Pva(DictGet(child.entries, "w"))

\* C14 as claimed: for every nested-table flag, suffix and declared type the
\* resolver returns; with a declared type, isCollection is whether the type is
\* wrapped in a DeviceVector and isEndpoint whether the unwrapped type is a
\* Signal type, whatever the flag and the suffix; with none and a nested table,
\* isCollection is whether there is a suffix, isEndpoint is false and the type
\* is Device; with none and a leaf, isCollection is false, isEndpoint is true,
\* the value type is none and the type is Signal.
C14_ResolverThreeTiers ==
    pc # "idle" =>
      /\ pc = "done"
      /\ ret.ok
      /\ IF args.common_device_type # NoHint
         THEN /\ ret.is_device_vector = args.common_device_type.vec
              /\ ret.is_signal = args.common_device_type.sig
              /\ ret.device_type.cls = args.common_device_type.cls
         ELSE IF args.is_pvi_table
         THEN /\ ret.is_device_vector = (args.number_suffix # None)
              /\ ~ret.is_signal
              /\ ret.device_type = Cls("Device")
         ELSE /\ ~ret.is_device_vector
              /\ ret.is_signal
              /\ ret.signal_dtype = ""
              /\ ret.device_type = Cls("Signal")

\* C15: once a discover or a simulate has bound the tree, every device held by
\* a DeviceVector has that DeviceVector as its parent, never the device the
\* DeviceVector is bound to, only a DeviceVector holds elements, and every
\* device bound as an attribute, a DeviceVector or not, has the device it is
\* bound to as its parent; at every depth.
C15_ParentsTwoLevel ==
    pc \in {"set_name", "done"} =>
      \A d \in 1..Len(devs) :
        /\ \A i \in 1..Len(devs[d].attrs) : devs[devs[d].attrs[i][2]].parent = d
        /\ devs[d].items # <<>> => devs[d].kind = "vector"
        /\ \A i \in 1..Len(devs[d].items) :
             /\ devs[devs[d].items[i][2]].parent = d
             /\ devs[devs[d].items[i][2]].parent # devs[d].parent

\* A discover returned that built, one level below the root, a DeviceVector of
\* two devices which have attributes of their own.
C15_Witness ==
    /\ ~call.sim
    /\ pc = "done"
    /\ \E v \in 2..Len(devs) :
         /\ devs[v].kind = "vector"
         /\ devs[v].parent \notin {None, 1}
         /\ Len(devs[v].items) = 2
         /\ \A i \in 1..2 : devs[devs[v].items[i][2]].attrs # <<>>

\* What the child at position i of the table of entry p is resolved as.
ResolvedType(p, i) ==
    LET child == TableOf(p)[i]
        hints == get_type_hints(ents[p].common_device_type).hints
        split == _strip_number_from_string(child.name)
    IN  _parse_type(~IsLeaf(child), split.number,
                    IF DictHas(hints, split.name) THEN DictGet(hints, split.name)
                    ELSE NoHint)

\* The entry made last, the child it was made for and the split of its name.
Newest == Len(ents)
NewestChild == TableOf(ents[Newest].up)[ents[Newest].idx]
NewestSplit == _strip_number_from_string(NewestChild.name)

\* C16: when the loop has taken a child without raising, the entry made for it
\* is stored in the sub_entries of the table's entry: for a child resolved as a
\* DeviceVector member, in a dict under the base name, at the key that is its
\* numeric suffix, or 1 when it has none; for any other child, on its own
\* under the full reported name, trailing digits included.
C16_AggregationRule ==
    Newest >= 2 /\ error = NoError =>
      LET sub_entries == ents[ents[Newest].up].sub_entries
          key == IF NewestSplit.number = None THEN 1 ELSE NewestSplit.number
      IN  IF ResolvedType(ents[Newest].up, ents[Newest].idx).is_device_vector
          THEN /\ DictHas(sub_entries, NewestSplit.name)
               /\ DictGet(sub_entries, NewestSplit.name).dict
               /\ DictHas(DictGet(sub_entries, NewestSplit.name).items, key)
               /\ DictGet(DictGet(sub_entries, NewestSplit.name).items, key) = Newest
          ELSE /\ DictHas(sub_entries, NewestChild.name)
               /\ DictGet(sub_entries, NewestChild.name) = Single(Newest)

\* The loop has just taken, as the second child of a table, a child without a
\* suffix that is resolved as a DeviceVector member, after one that is not.
C16_Witness ==
    /\ Newest >= 3
    /\ error = NoError
    /\ ents[Newest].idx = 2
    /\ NewestSplit.number = None
    /\ ResolvedType(ents[Newest].up, 2).is_device_vector
    /\ ~ResolvedType(ents[Newest].up, 1).is_device_vector

\* The keys of an insertion-ordered dict come in ascending order.
Ascending(items) ==
    \A i, j \in 1..Len(items) : i < j => items[i][1] < items[j][1]

\* C17 as claimed: after a discover that returned, every dict of numbered
\* entries in the sub_entries of an entry and every DeviceVector bound in the
\* tree enumerates its members in ascending order of their index, whatever the
\* order the table reported them in.
C17_CollectionsAscending ==
    ~call.sim /\ pc = "done" =>
      /\ \A e \in 1..Len(ents) : \A i \in 1..Len(ents[e].sub_entries) :
           ents[e].sub_entries[i][2].dict => Ascending(ents[e].sub_entries[i][2].items)
      /\ \A d \in 1..Len(devs) : Ascending(devs[d].items)

\* The entries made for the child at position i of the table of entry p that
\* are part of the discovery tree and whose device is bound in the tree.
NodesOf(p, i) ==
    {ents[e].device : e \in {f \in 2..Len(ents) :
        /\ ents[f].up = p /\ ents[f].idx = i
        /\ Linked(f)
        /\ Attached(ents[f].device)}}

\* C18 as claimed: after a discover that returned, every child that a table
\* read in the call reports has a device of its own bound in the tree, no two
\* children sharing one; a table that reports a name both without and with a
\* suffix, or two names with the same base and number, never lets the discover
\* return.
C18_NoChildOverwritten ==
    ~call.sim /\ pc = "done" =>
      /\ \A k \in 1..Len(trace) :
           trace[k].op = "connected" =>
             \A i \in 1..Len(trace[k].table) : NodesOf(trace[k].entry, i) # {}
      /\ \A e1, e2 \in 2..Len(ents) : e1 # e2 => ents[e1].device # ents[e2].device

====
